---- MODULE Spec2Model ----
(***************************************************************************)
(* Model of eewperformance/comcat.py: DetailEvent.get_product and the      *)
(* Product handles it returns.                                             *)
(*                                                                         *)
(* The event document (self._jdict["properties"]["products"]) maps a       *)
(* product type to the list of its submissions.  get_product builds a      *)
(* numpy structured array (one row per submission), sorts it, numbers the  *)
(* rows of every source, filters by source and picks rows by version       *)
(* policy.                                                                 *)
(*                                                                         *)
(* numpy semantics the model relies on:                                    *)
(*  - ndarray.sort(order=...) on a structured array compares the fields    *)
(*    named in order first and then the remaining fields in dtype order,   *)
(*    so with the unique "index" field the order is total;                 *)
(*  - iterating a structured array yields views, so row["version"] = v     *)
(*    writes into the array;                                               *)
(*  - the "source" column is bytes (S64); comparing it with a text string  *)
(*    (the JSON value, or the caller's argument) matches equal ids under   *)
(*    Python 2 and matches nothing under Python 3;                         *)
(*  - ndarray has no iterrows(); argmax of an empty array raises           *)
(*    ValueError.                                                          *)
(* Source ids are ASCII network codes of at most 64 bytes, weights and     *)
(* times fit their int32/int64 columns.                                    *)
(***************************************************************************)
EXTENDS Integers, Sequences, FiniteSets, TLC

\* ---------------------------------------------------------------- bounds
MaxSubs == 2
MaxWeight == 2
MaxTime == 2

\* ------------------------------------------------------- VersionOption
LAST == 1
FIRST == 2
ALL == 3
PREFERRED == 4

\* Network ids, listed in the byte order of their S64 encoding.
SourceIds == <<"ci", "us">>
Sources == {SourceIds[i] : i \in 1..Len(SourceIds)}
SourceRank(s) == CHOOSE i \in 1..Len(SourceIds) : SourceIds[i] = s

Weights == 1..MaxWeight
Times == 1..MaxTime

\* One raw submission of a product type, as far as get_product reads it.
Submission == [source : Sources, preferredWeight : Weights, updateTime : Times]

RECURSIVE SeqsUpTo(_, _)
SeqsUpTo(S, n) ==
    IF n = 0 THEN {<<>>}
    ELSE LET shorter == SeqsUpTo(S, n - 1)
         IN  shorter \cup {Append(q, x) : q \in {r \in shorter : Len(r) = n - 1}, x \in S}

\* The product type asked for; the document holds it (possibly with an empty
\* list) or holds no product type at all.
ProductNames == {"origin"}
Documents ==
    [{"origin"} -> SeqsUpTo(Submission, MaxSubs)] \cup {[t \in {} |-> <<>>]}
SourceArgs == {"preferred", "all"} \cup Sources
VersionArgs == {LAST, FIRST, ALL, PREFERRED, PREFERRED + 1}

VARIABLES
    py3,       \* TRUE: Python 3 (bytes never equal text); FALSE: Python 2
    products,  \* self._jdict["properties"]["products"]
    call,      \* arguments of the last get_product call
    table,     \* the version table of the last call (df after line 254)
    df,        \* the selected rows of the last call (df after line 265)
    usources,  \* the sources retained by the last call (line 271)
    ret,       \* outcome of the last call: returned products or raised error
    clock,     \* the epoch milliseconds an event ("time") or a product ("updateTime") holds
    dtime,     \* the datetime the last time / update_time access returned
    evt,       \* a submission dict of the document: its fields, the nested dicts by reference
    heap,      \* the nested dicts (properties, contents): reference -> content
    prod,      \* Product._product of a Product made from evt
    op,        \* the last operation on evt or prod
    inserted,  \* Product._product["contents"] as loaded: a sequence of [key, url]
    contents,  \* Product._product["contents"] in the order its keys() are iterated
    creq,      \* the last content lookup: its name and its regexp
    cret,      \* what the last content lookup returned
    fpc,       \* where the fetch call is: idle, first, second, write, done
    freq,      \* the fetch call: whose method it is, and its argument
    furl,      \* the url the call requests
    attempts,  \* the outcomes of the requests made so far
    dirExists, \* whether dataDir is a directory
    before,    \* the files of dataDir when the call was made
    files,     \* the files of dataDir: name -> text
    writes,    \* the names of the files the call has written
    fret       \* how the call ended: return, or the exception raised

productVars == <<py3, products, call, table, df, usources, ret>>
timeVars == <<clock, dtime>>
copyVars == <<evt, heap, prod, op>>
contentVars == <<inserted, contents, creq, cret>>
fetchVars == <<fpc, freq, furl, attempts, dirExists, before, files, writes, fret>>
vars == <<productVars, timeVars, copyVars, contentVars, fetchVars>>

\* The state of the operations a specification does not exercise.
NoClock == [of |-> "", msec |-> 0]
NoTime == [seconds |-> 0, microseconds |-> 0, set |-> FALSE]
TimeIdle == clock = NoClock /\ dtime = NoTime
NoDict == [made |-> FALSE, source |-> "", properties |-> 0, contents |-> 0]
CopyIdle == evt = NoDict /\ heap = <<>> /\ prod = NoDict /\ op = ""
NoLookup == [name |-> "", regexp |-> ""]
NoResult == [kind |-> "", str |-> "", list |-> <<>>]
NoFetch == [who |-> "", arg |-> ""]
NoFiles == [n \in {} |-> ""]
FetchIdle ==
    /\ fpc = "idle" /\ freq = NoFetch /\ furl = "" /\ attempts = <<>> /\ fret = ""
    /\ dirExists = FALSE /\ before = NoFiles /\ files = NoFiles /\ writes = <<>>
ContentIdle == inserted = <<>> /\ contents = <<>> /\ creq = NoLookup /\ cret = NoResult

\* ------------------------------------------------------ structured array
DType == <<"weight", "source", "time", "index", "version">>

FieldVal(row, f) == IF f = "source" THEN SourceRank(row.source) ELSE row[f]

\* Mutant: a stable sort, ties on the fields of order being left in list order.
SortKey_Stable(order) == order \o <<"index">>

\* Fields compared by sort(order=order): those of order, then the others in dtype order.
SortKey(order) ==
    order \o SelectSeq(DType, LAMBDA f : \A i \in 1..Len(order) : order[i] # f)

RECURSIVE RowLess(_, _, _)
RowLess(a, b, fields) ==
    IF fields = <<>> THEN FALSE
    ELSE LET f == Head(fields)
         IN  IF FieldVal(a, f) < FieldVal(b, f) THEN TRUE
             ELSE IF FieldVal(a, f) > FieldVal(b, f) THEN FALSE
             ELSE RowLess(a, b, Tail(fields))

RECURSIVE Insert(_, _, _)
Insert(row, sorted, fields) ==
    IF sorted = <<>> THEN <<row>>
    ELSE IF RowLess(row, Head(sorted), fields) THEN <<row>> \o sorted
    ELSE <<Head(sorted)>> \o Insert(row, Tail(sorted), fields)

\* Insertion sort of rows[1..n] on the comparison fields: the order is total, so
\* the result is the one numpy's sort produces.
RECURSIVE SortPrefix(_, _, _)
SortPrefix(rows, n, fields) ==
    IF n = 0 THEN <<>>
    ELSE Insert(rows[n], SortPrefix(rows, n - 1, fields), fields)

\* ndarray.sort(order=order).
SortRows(rows, order) == SortPrefix(rows, Len(rows), SortKey(order))

BuildTable(subs) ==
    [i \in 1..Len(subs) |->
        [weight |-> subs[i].preferredWeight,
         source |-> subs[i].source,
         time |-> subs[i].updateTime,
         index |-> i - 1,
         version |-> 0]]

\* The loop of lines 247-254 from row i on: psources are the sources seen so
\* far, pversion the next version number.
RECURSIVE NumberRows(_, _, _, _)
NumberRows(rows, i, psources, pversion) ==
    IF i > Len(rows) THEN rows
    ELSE LET fresh == rows[i].source \notin psources
             v == IF fresh THEN 1 ELSE pversion
         IN  NumberRows([rows EXCEPT ![i].version = v], i + 1,
                        psources \cup {rows[i].source}, v + 1)

\* Mutant: the numbering runs through the table and does not restart at a new source.
AssignVersions_NoRestart(rows) == [i \in 1..Len(rows) |-> [rows[i] EXCEPT !.version = i]]

AssignVersions(rows) == NumberRows(rows, 1, {}, 1)

\* Mutant: the rows are numbered in the order of the submission list (no sort).
VersionTable_Unsorted(subs) == AssignVersions(BuildTable(subs))

VersionTable(subs) == AssignVersions(SortRows(BuildTable(subs), <<"source", "time">>))

\* numpy.argmax: 0-based position of the first maximum.
ArgMax(vals) ==
    (CHOOSE i \in 1..Len(vals) :
        /\ \A j \in 1..Len(vals) : vals[j] <= vals[i]
        /\ \A j \in 1..(i - 1) : vals[j] < vals[i]) - 1

\* df["source"] == s for a text string s.
BytesEqText(isPy3, b, s) == ~isPy3 /\ b = s

FilterText(isPy3, rows, s) == SelectSeq(rows, LAMBDA r : BytesEqText(isPy3, r.source, s))

\* df["source"] == s for s taken from the column itself (bytes).
FilterBytes(rows, s) == SelectSeq(rows, LAMBDA r : r.source = s)

RowSources(rows) == {rows[i].source : i \in 1..Len(rows)}

\* ---------------------------------------------------------------- Product
Product(product_name, version, product) ==
    [product_name |-> product_name, version |-> version, product |-> product]

\* ---------------------------------------------------------------- outcomes
NoCall == [productName |-> "", source |-> "", version |-> 0]
NoRet == [status |-> "none", exc |-> "", msg |-> "", products |-> <<>>]
Return(ps) == [status |-> "return", exc |-> "", msg |-> "", products |-> ps]
Raise(exc, msg) == [status |-> "raise", exc |-> exc, msg |-> msg, products |-> <<>>]

NoProductType == Raise("AttributeError", "has no product of type")
NoProductsForSource == Raise("AttributeError", "No products found for source")
NoVersionOption == Raise("AttributeError", "No VersionOption defined")
NoIterrows == Raise("AttributeError", "ndarray has no attribute iterrows")
EmptyArgMax == Raise("ValueError", "argmax of an empty sequence")

HasProduct(productName) == productName \in DOMAIN products

\* Lines 256-265: the table filtered by the source argument.
PreferredSource(subs, rows) ==
    subs[ArgMax([i \in 1..Len(rows) |-> rows[i].weight]) + 1].source

\* Mutant: an explicit source id does not filter the table.
SelectSource_NoFilter(isPy3, subs, rows, source) ==
    IF source = "preferred"
    THEN SortRows(FilterText(isPy3, rows, PreferredSource(subs, rows)), <<"time">>)
    ELSE IF source = "all"
    THEN SortRows(rows, <<"source", "time">>)
    ELSE SortRows(rows, <<"time">>)

SelectSource(isPy3, subs, rows, source) ==
    IF source = "preferred"
    THEN SortRows(FilterText(isPy3, rows, PreferredSource(subs, rows)), <<"time">>)
    ELSE IF source = "all"
    THEN SortRows(rows, <<"source", "time">>)
    ELSE SortRows(FilterText(isPy3, rows, source), <<"time">>)

\* Mutant: PREFERRED does not sort by weight and takes the latest row.
PickVersion_PreferredIsLatest(group, version) ==
    IF version \in {PREFERRED, LAST}
    THEN [raised |-> NoRet, rows |-> <<group[Len(group)]>>]
    ELSE IF version = FIRST
    THEN [raised |-> NoRet, rows |-> <<group[1]>>]
    ELSE IF version = ALL
    THEN [raised |-> NoIterrows, rows |-> <<>>]
    ELSE [raised |-> NoVersionOption, rows |-> <<>>]

\* Mutant: FIRST takes the row at position 1 of a 0-based array (the second row,
\* or the last one of a single-row group).
PickVersion_FirstOffByOne(group, version) ==
    IF version = PREFERRED
    THEN LET byWeight == SortRows(group, <<"weight", "time">>)
         IN  [raised |-> NoRet, rows |-> <<byWeight[Len(byWeight)]>>]
    ELSE IF version = LAST
    THEN [raised |-> NoRet, rows |-> <<group[Len(group)]>>]
    ELSE IF version = FIRST
    THEN [raised |-> NoRet, rows |-> <<group[IF Len(group) > 1 THEN 2 ELSE 1]>>]
    ELSE IF version = ALL
    THEN [raised |-> NoIterrows, rows |-> <<>>]
    ELSE [raised |-> NoVersionOption, rows |-> <<>>]

\* Mutant: LAST takes the first row of the group.
PickVersion_LastIsFirst(group, version) ==
    IF version = PREFERRED
    THEN LET byWeight == SortRows(group, <<"weight", "time">>)
         IN  [raised |-> NoRet, rows |-> <<byWeight[Len(byWeight)]>>]
    ELSE IF version \in {LAST, FIRST}
    THEN [raised |-> NoRet, rows |-> <<group[1]>>]
    ELSE IF version = ALL
    THEN [raised |-> NoIterrows, rows |-> <<>>]
    ELSE [raised |-> NoVersionOption, rows |-> <<>>]

\* Lines 276-299 and 301-324: the rows one source group contributes, or the
\* error the branch raises.  group is sorted by time.
PickVersion(group, version) ==
    IF version = PREFERRED
    THEN LET byWeight == SortRows(group, <<"weight", "time">>)
         IN  [raised |-> NoRet, rows |-> <<byWeight[Len(byWeight)]>>]
    ELSE IF version = LAST
    THEN [raised |-> NoRet, rows |-> <<group[Len(group)]>>]
    ELSE IF version = FIRST
    THEN [raised |-> NoRet, rows |-> <<group[1]>>]
    ELSE IF version = ALL
    THEN [raised |-> NoIterrows, rows |-> <<>>]
    ELSE [raised |-> NoVersionOption, rows |-> <<>>]

\* Mutant: a Product gets its position among the selected rows as its version.
MakeProducts_PositionAsVersion(productName, subs, rows) ==
    [i \in 1..Len(rows) |-> Product(productName, i, subs[rows[i].index + 1])]

MakeProducts(productName, subs, rows) ==
    [i \in 1..Len(rows) |-> Product(productName, rows[i].version, subs[rows[i].index + 1])]

\* Lines 273-299: the loop over usources in iteration order, from position i on.
RECURSIVE AllSourcesLoop(_, _, _, _, _, _, _)
AllSourcesLoop(productName, subs, rows, order, i, version, acc) ==
    IF i > Len(order) THEN Return(acc)
    ELSE LET df_source == SortRows(FilterBytes(rows, order[i]), <<"time">>)
             pick == PickVersion(df_source, version)
         IN  IF pick.raised # NoRet THEN pick.raised
             ELSE AllSourcesLoop(productName, subs, rows, order, i + 1, version,
                                 acc \o MakeProducts(productName, subs, pick.rows))

SingleSource(productName, subs, rows, version) ==
    LET pick == PickVersion(rows, version)
    IN  IF pick.raised # NoRet THEN pick.raised
        ELSE Return(MakeProducts(productName, subs, pick.rows))

\* Iteration orders of a set (set(df["source"]) iterates in hash order).
Orderings(S) ==
    {f \in [1..Cardinality(S) -> S] : \A i, j \in 1..Cardinality(S) : f[i] = f[j] => i = j}

RECURSIVE Reverse(_)
Reverse(q) == IF q = <<>> THEN <<>> ELSE Append(Reverse(Tail(q)), Head(q))

\* Mutant: the call reorders the submission lists of the document in place.
DocumentAfterGetProduct_Reordered(doc) == [t \in DOMAIN doc |-> Reverse(doc[t])]

\* Mutant: the sort of line 246 is applied to the submission lists themselves.
DocumentAfterGetProduct_Sorted(doc) ==
    [t \in DOMAIN doc |->
        LET rows == SortRows(BuildTable(doc[t]), <<"source", "time">>)
        IN  [i \in 1..Len(rows) |-> doc[t][rows[i].index + 1]]]

\* The document after a get_product call: the method only reads self._jdict.
DocumentAfterGetProduct(doc) == doc

TypeOK ==
    /\ py3 \in BOOLEAN
    /\ products \in Documents
    /\ call \in {NoCall} \cup [productName : ProductNames, source : SourceArgs, version : VersionArgs]
    /\ ret.status \in {"none", "return", "raise"}

Init ==
    /\ py3 \in BOOLEAN
    /\ products \in Documents
    /\ call = NoCall
    /\ table = <<>>
    /\ df = <<>>
    /\ usources = {}
    /\ ret = NoRet
    /\ TimeIdle
    /\ CopyIdle
    /\ ContentIdle
    /\ FetchIdle

\* get_product, lines 213-326.  table is df once the versions are assigned
\* (line 254), df is df once the source is selected (line 265).
GetProduct(productName, source, version) ==
    /\ call' = [productName |-> productName, source |-> source, version |-> version]
    /\ py3' = py3
    /\ products' = DocumentAfterGetProduct(products)
    /\ table' = IF HasProduct(productName) THEN VersionTable(products[productName]) ELSE <<>>
    /\ df' = IF ~HasProduct(productName) \/ (source = "preferred" /\ Len(table') = 0)
             THEN <<>>
             ELSE SelectSource(py3, products[productName], table', source)
    /\ usources' = RowSources(df')
    /\ IF ~HasProduct(productName)
       THEN ret' = NoProductType
       ELSE IF source = "preferred" /\ Len(table') = 0
       THEN ret' = EmptyArgMax
       ELSE IF Len(df') = 0
       THEN ret' = NoProductsForSource
       ELSE IF source = "all"
       THEN \E order \in Orderings(usources') :
               ret' = AllSourcesLoop(productName, products[productName], df',
                                     order, 1, version, <<>>)
       ELSE ret' = SingleSource(productName, products[productName], df', version)
    /\ UNCHANGED <<timeVars, copyVars, contentVars, fetchVars>>

Next ==
    \E productName \in ProductNames, source \in SourceArgs, version \in VersionArgs :
        GetProduct(productName, source, version)

Spec == Init /\ [][Next]_vars

\* The get_product state of the specifications that make no get_product call.
ProductIdle ==
    /\ py3 \in BOOLEAN
    /\ products = [t \in {} |-> <<>>]
    /\ call = NoCall
    /\ table = <<>>
    /\ df = <<>>
    /\ usources = {}
    /\ ret = NoRet

\* ------------------------------------------- DetailEvent.time, update_time
MaxMsec == 1500
EpochMsecs == (0 - MaxMsec)..MaxMsec

\* Mutant: the quotient is rounded towards zero.
TimeInSec_Truncated(time_in_msec) ==
    IF time_in_msec >= 0 THEN time_in_msec \div 1000 ELSE 0 - ((0 - time_in_msec) \div 1000)

\* time_in_msec//1000: Python's // rounds towards minus infinity.
TimeInSec(time_in_msec) == time_in_msec \div 1000

Msec(time_in_msec) == time_in_msec - (TimeInSec(time_in_msec) * 1000)

\* datetime.utcfromtimestamp(time_in_sec): whole seconds, no microseconds.
UtcFromTimestamp(time_in_sec) == [seconds |-> time_in_sec, microseconds |-> 0, set |-> TRUE]

\* dtime + timedelta(milliseconds=msec): datetime keeps 0 <= microseconds < 10^6
\* and carries the rest into the seconds.
AddMilliseconds(d, msec) ==
    LET us == d.microseconds + msec * 1000
    IN  [seconds |-> d.seconds + (us \div 1000000),
         microseconds |-> us % 1000000,
         set |-> TRUE]

ToDatetime(time_in_msec) ==
    AddMilliseconds(UtcFromTimestamp(TimeInSec(time_in_msec)), Msec(time_in_msec))

InitTime ==
    /\ ProductIdle
    /\ CopyIdle
    /\ ContentIdle
    /\ FetchIdle
    /\ clock \in [of : {"event", "product"}, msec : EpochMsecs]
    /\ dtime = NoTime

\* DetailEvent.time, lines 140-150.
EventTime ==
    /\ clock.of = "event"
    /\ dtime' = ToDatetime(clock.msec)
    /\ UNCHANGED <<productVars, copyVars, contentVars, fetchVars, clock>>

\* Product.update_time, lines 358-368.
UpdateTime ==
    /\ clock.of = "product"
    /\ dtime' = ToDatetime(clock.msec)
    /\ UNCHANGED <<productVars, copyVars, contentVars, fetchVars, clock>>

NextTime == EventTime \/ UpdateTime

SpecTime == InitTime /\ [][NextTime]_vars

\* ------------------------------------------------------- Product.__init__
\* Values of a submission's fields and of the content of its nested dicts.
FieldValues == {"a", "b", "c"}

\* The two nested dicts of a submission, by reference.
PropertiesRef == 1
ContentsRef == 2
NestedFields == {"properties", "contents"}

\* dict.copy(): a new dict holding the same values, a nested dict being held
\* by reference.
DictCopy(d) == [f \in DOMAIN d |-> d[f]]

InitCopy ==
    /\ ProductIdle
    /\ TimeIdle
    /\ ContentIdle
    /\ FetchIdle
    /\ evt \in [made : {TRUE}, source : FieldValues,
                 properties : {PropertiesRef}, contents : {ContentsRef}]
    /\ heap \in [{PropertiesRef, ContentsRef} -> FieldValues]
    /\ prod = NoDict
    /\ op = ""

\* Product.__init__, lines 342-344: self._product = product.copy().
NewProduct ==
    /\ prod' = DictCopy(evt)
    /\ op' = "init"
    /\ UNCHANGED <<productVars, timeVars, contentVars, fetchVars, evt, heap>>

\* product._product["source"] = v
ProductSetField(v) ==
    /\ prod.made
    /\ prod' = [prod EXCEPT !.source = v]
    /\ op' = "product_field"
    /\ UNCHANGED <<productVars, timeVars, contentVars, fetchVars, evt, heap>>

\* product._product[f][key] = v, f one of "properties", "contents"
ProductSetNested(f, v) ==
    /\ prod.made
    /\ heap' = [heap EXCEPT ![prod[f]] = v]
    /\ op' = "product_nested"
    /\ UNCHANGED <<productVars, timeVars, contentVars, fetchVars, evt, prod>>

\* The same two writes through the event's document.
EventSetField(v) ==
    /\ evt' = [evt EXCEPT !.source = v]
    /\ op' = "event_field"
    /\ UNCHANGED <<productVars, timeVars, contentVars, fetchVars, heap, prod>>

EventSetNested(f, v) ==
    /\ heap' = [heap EXCEPT ![evt[f]] = v]
    /\ op' = "event_nested"
    /\ UNCHANGED <<productVars, timeVars, contentVars, fetchVars, evt, prod>>

NextCopy ==
    \/ NewProduct
    \/ \E v \in FieldValues : ProductSetField(v)
    \/ \E f \in NestedFields, v \in FieldValues : ProductSetNested(f, v)
    \/ \E v \in FieldValues : EventSetField(v)
    \/ \E f \in NestedFields, v \in FieldValues : EventSetNested(f, v)

SpecCopy == InitCopy /\ [][NextCopy]_vars

\* ------------------------------------------------------- Product contents
MaxContents == 2

\* "a"*n
RECURSIVE Repeat(_, _)
Repeat(c, n) ==
    IF n = 0 THEN ""
    ELSE IF n % 2 = 0 THEN LET half == Repeat(c, n \div 2) IN half \o half
    ELSE c \o Repeat(c, n - 1)

\* The length of the placeholder name the scans start from ("a"*1000).
PlaceholderLen == 1000

Char(str, i) == SubSeq(str, i, i)

Positions(str, cs, from) == {i \in from..Len(str) : Char(str, i) \in cs}

\* The least position >= from of one of the characters cs in str, or Len(str) + 1.
Find(str, cs, from) ==
    LET ps == Positions(str, cs, from)
    IN  IF ps = {} THEN Len(str) + 1 ELSE CHOOSE i \in ps : \A j \in ps : i <= j

\* The position of the last "/" of str, or 0.
LastSlash(str) ==
    LET ps == Positions(str, {"/"}, 1)
    IN  IF ps = {} THEN 0 ELSE CHOOSE i \in ps : \A j \in ps : i >= j

\* urlparse(url).path for a url "scheme://netloc/path?query#fragment": what
\* follows the netloc, up to the query or the fragment.
UrlPath(url) ==
    LET colon == Find(url, {":"}, 1)
        netloc == IF SubSeq(url, colon, colon + 2) = "://" THEN colon + 3 ELSE 1
        start == Find(url, {"/", "?", "#"}, netloc)
        stop == Find(url, {"?", "#"}, start)
    IN  SubSeq(url, start, stop - 1)

\* str.split("/")[-1], and os.path.split(str)[1]
LastPart(str) == SubSeq(str, LastSlash(str) + 1, Len(str))

\* parts.path.split("/")[-1]
FileName(url) == LastPart(UrlPath(url))

\* re.search(regexp + "$", str) is not None, for a regexp that has no special
\* character left unescaped (it is given here as the text it matches).
MatchesAtEnd(regexp, str) ==
    /\ Len(regexp) <= Len(str)
    /\ SubSeq(str, Len(str) - Len(regexp) + 1, Len(str)) = regexp

Site == "https://earthquake.usgs.gov/product/shakemap/"

ContentEntries ==
    {[key |-> "download/grid.xml", url |-> Site \o "download/grid.xml"],
     [key |-> "download/info.xml", url |-> Site \o "download/info.xml"],
     [key |-> "download/stationlist.xml", url |-> Site \o "download/stationlist.xml"],
     [key |-> "long.xml", url |-> Site \o Repeat("b", PlaceholderLen - 4) \o ".xml"],
     [key |-> "wide.xml", url |-> Site \o Repeat("c", PlaceholderLen - 4) \o ".xml"],
     [key |-> "shape.zip", url |-> Site \o "shape.xml?format=zip"]}

Regexps == {"xml", "grid.xml", "zip"}

\* A dict holds a key once.
ContentMappings ==
    {c \in SeqsUpTo(ContentEntries, MaxContents) :
        \A i, j \in 1..Len(c) : c[i].key = c[j].key => i = j}

\* The orders in which a dict loaded as ins is iterated: the insertion order
\* under Python 3, the dict's own order under Python 2.
IterationOrders(ins, python3) ==
    IF python3 THEN {ins}
    ELSE {[i \in 1..Len(ins) |-> ins[f[i]]] : f \in Orderings(1..Len(ins))}

None == [kind |-> "None", str |-> "", list |-> <<>>]
Str(str) == [kind |-> "str", str |-> str, list |-> <<>>]
List(l) == [kind |-> "list", str |-> "", list |-> l]

\* Mutant: the key is matched, as the other lookups do.
MatchingNames_ByKey(cs, regexp, i, acc) ==
    LET RECURSIVE Loop(_, _)
        Loop(k, a) ==
            IF k > Len(cs) THEN a
            ELSE IF MatchesAtEnd(regexp, cs[k].key)
                 THEN Loop(k + 1, Append(a, FileName(cs[k].url)))
                 ELSE Loop(k + 1, a)
    IN  Loop(i, acc)

\* The loop of lines 417-422 from entry i on.
RECURSIVE MatchingNames(_, _, _, _)
MatchingNames(cs, regexp, i, acc) ==
    IF i > Len(cs) THEN acc
    ELSE IF MatchesAtEnd(regexp, FileName(cs[i].url))
         THEN MatchingNames(cs, regexp, i + 1, Append(acc, FileName(cs[i].url)))
         ELSE MatchingNames(cs, regexp, i + 1, acc)

\* get_contents_matching, lines 413-423.
GetContentsMatching(cs, regexp) ==
    IF Len(cs) = 0 THEN <<>> ELSE MatchingNames(cs, regexp, 1, <<>>)

\* Mutant: a name as long as the current one replaces it.
Shorter_OrEqual(fnameLen, nameLen) == fnameLen <= nameLen

\* len(fname) < len(content_name)
Shorter(fnameLen, nameLen) == fnameLen < nameLen

\* The loops of lines 438-446, 466-475 and 494-502 from entry i on.  st holds
\* the loop's variables: content_name (by its length), content_url, found, and
\* url, the url of the last entry whose key matched.
RECURSIVE Scan(_, _, _, _)
Scan(cs, regexp, i, st) ==
    IF i > Len(cs) THEN st
    ELSE IF ~MatchesAtEnd(regexp, cs[i].key) THEN Scan(cs, regexp, i + 1, st)
    ELSE LET fname == FileName(cs[i].url)
         IN  IF Shorter(Len(fname), st.nameLen)
             THEN Scan(cs, regexp, i + 1,
                       [content_name |-> fname, nameLen |-> Len(fname),
                        content_url |-> cs[i].url, found |-> TRUE, url |-> cs[i].url])
             ELSE Scan(cs, regexp, i + 1, [st EXCEPT !.url = cs[i].url])

ScanStart ==
    [content_name |-> "", nameLen |-> PlaceholderLen, content_url |-> "",
     found |-> FALSE, url |-> ""]

\* get_content_name, lines 436-450.
GetContentName(cs, regexp) ==
    LET st == Scan(cs, regexp, 1, ScanStart)
    IN  IF st.found THEN Str(st.content_name) ELSE None

\* get_content_url, lines 463-479.
GetContentUrl(cs, regexp) ==
    LET st == Scan(cs, regexp, 1, ScanStart)
    IN  IF st.found THEN Str(st.content_url) ELSE None

InitContent ==
    /\ ProductIdle
    /\ TimeIdle
    /\ CopyIdle
    /\ FetchIdle
    /\ inserted \in ContentMappings
    /\ contents \in IterationOrders(inserted, py3)
    /\ creq = NoLookup
    /\ cret = NoResult

ContentsMatching(regexp) ==
    /\ creq' = [name |-> "get_contents_matching", regexp |-> regexp]
    /\ cret' = List(GetContentsMatching(contents, regexp))
    /\ UNCHANGED <<productVars, timeVars, copyVars, fetchVars, inserted, contents>>

ContentName(regexp) ==
    /\ creq' = [name |-> "get_content_name", regexp |-> regexp]
    /\ cret' = GetContentName(contents, regexp)
    /\ UNCHANGED <<productVars, timeVars, copyVars, fetchVars, inserted, contents>>

ContentUrl(regexp) ==
    /\ creq' = [name |-> "get_content_url", regexp |-> regexp]
    /\ cret' = GetContentUrl(contents, regexp)
    /\ UNCHANGED <<productVars, timeVars, copyVars, fetchVars, inserted, contents>>

NextContent ==
    \E regexp \in Regexps :
        \/ ContentsMatching(regexp)
        \/ ContentName(regexp)
        \/ ContentUrl(regexp)

SpecContent == InitContent /\ [][NextContent]_vars

\* ------------------------------------------------------------------- fetch
EventIds == {"nc72923380", "ci38457511"}

\* URL_TEMPLATE.replace("[EVENTID]", event_id), line 67.
EventUrl(event_id) ==
    "https://earthquake.usgs.gov/earthquakes/feed/v1.0/detail/" \o event_id \o ".geojson"

\* The name the text is written under in dataDir, lines 68, 83-86 and 507, 521-524.
GzName(url) ==
    LET filename == LastPart(url)
    IN  IF MatchesAtEnd(".gz", filename) THEN filename ELSE filename \o ".gz"

Outcomes == {"ok", "RequestException"}

\* Mutant: the request is repeated whatever its outcome.
AfterRequest_Repeated(pc, outcome) ==
    IF pc = "first" THEN "second"
    ELSE IF outcome = "ok" THEN "write" ELSE "done"

\* Where the try/except of lines 70-81 and 508-519 goes after a request.
AfterRequest(pc, outcome) ==
    IF outcome = "ok" THEN "write"
    ELSE IF pc = "first" THEN "second" ELSE "done"

\* The directory and its files before the call.
OldFiles == {NoFiles, [n \in {"grid.xml.gz"} |-> "old text"]}

InitFetch ==
    /\ ProductIdle
    /\ TimeIdle
    /\ CopyIdle
    /\ inserted \in ContentMappings
    /\ contents \in IterationOrders(inserted, py3)
    /\ creq = NoLookup
    /\ cret = NoResult
    /\ fpc = "idle" /\ freq = NoFetch /\ furl = "" /\ attempts = <<>> /\ fret = ""
    /\ dirExists \in BOOLEAN
    /\ files \in IF dirExists THEN OldFiles ELSE {NoFiles}
    /\ before = files
    /\ writes = <<>>

\* DetailEvent.fetch up to its first request, lines 62-68.
FetchEvent(event_id) ==
    /\ fpc = "idle"
    /\ freq' = [who |-> "DetailEvent", arg |-> event_id]
    /\ dirExists' = TRUE
    /\ furl' = EventUrl(event_id)
    /\ fpc' = "first"
    /\ UNCHANGED <<productVars, timeVars, copyVars, contentVars,
                   attempts, before, files, writes, fret>>

\* Product.fetch up to its first request, lines 491-507.
FetchProduct(regexp) ==
    /\ fpc = "idle"
    /\ freq' = [who |-> "Product", arg |-> regexp]
    /\ LET st == Scan(contents, regexp, 1, ScanStart)
       IN  IF st.found
           THEN furl' = st.url /\ fpc' = "first" /\ fret' = fret
           ELSE furl' = "" /\ fpc' = "done" /\ fret' = "return"
    /\ UNCHANGED <<productVars, timeVars, copyVars, contentVars,
                   attempts, dirExists, before, files, writes>>

\* connection.get(url) and raise_for_status(), lines 73-74, 77-78, 511-512
\* and 515-516.
Request(outcome) ==
    /\ fpc \in {"first", "second"}
    /\ attempts' = Append(attempts, outcome)
    /\ fpc' = AfterRequest(fpc, outcome)
    /\ fret' = IF fpc' = "done" THEN "return" ELSE fret
    /\ UNCHANGED <<productVars, timeVars, copyVars, contentVars,
                   freq, furl, dirExists, before, files, writes>>

\* gzip.open(filename+suffix, "w") and the write, lines 83-88 and 521-526.
Write ==
    /\ fpc = "write"
    /\ fpc' = "done"
    /\ IF dirExists
       THEN /\ files' = [n \in DOMAIN files \cup {GzName(furl)} |->
                            IF n = GzName(furl) THEN "response text" ELSE files[n]]
            /\ writes' = Append(writes, GzName(furl))
            /\ fret' = "return"
       ELSE /\ fret' = "IOError"
            /\ UNCHANGED <<files, writes>>
    /\ UNCHANGED <<productVars, timeVars, copyVars, contentVars,
                   freq, furl, attempts, dirExists, before>>

NextFetch ==
    \/ \E event_id \in EventIds : FetchEvent(event_id)
    \/ \E regexp \in Regexps : FetchProduct(regexp)
    \/ \E outcome \in Outcomes : Request(outcome)
    \/ Write

SpecFetch == InitFetch /\ [][NextFetch]_vars

\* ------------------------------------------------------------------ claims
Called == call # NoCall
Subs == IF HasProduct("origin") THEN products["origin"] ELSE <<>>
SubSources == {Subs[i].source : i \in 1..Len(Subs)}
Group(s) == {i \in 1..Len(Subs) : Subs[i].source = s}
Returned == ret.status = "return"
NotFound(r) == r \in {NoProductType, NoProductsForSource}
InvalidPolicy(r) == r = NoVersionOption
ValidVersion(v) == v \in {LAST, FIRST, ALL, PREFERRED}

\* The rows of the version table are the submissions, each once.
TableRowsAreSubs ==
    /\ Len(table) = Len(Subs)
    /\ \A i \in 1..Len(table) :
          /\ table[i].index \in 0..(Len(Subs) - 1)
          /\ table[i].source = Subs[table[i].index + 1].source
          /\ table[i].time = Subs[table[i].index + 1].updateTime
          /\ table[i].weight = Subs[table[i].index + 1].preferredWeight
    /\ \A i, j \in 1..Len(table) : table[i].index = table[j].index => i = j

\* The source groups the call retained: every source for 'all', the requested one
\* for an explicit id, a single one for 'preferred'.
RetainedGroups ==
    /\ call.source = "all" => usources = SubSources
    /\ call.source \in Sources => usources = {call.source}
    /\ call.source = "preferred" => Cardinality(usources) = 1 /\ usources \subseteq SubSources

\* One product per retained source.
OnePerGroup ==
    /\ Len(ret.products) = Cardinality(usources)
    /\ \A s \in usources : \E k \in 1..Len(ret.products) : ret.products[k].product.source = s

\* C1: in the version table of a call, the versions of every source's rows are
\* exactly 1..k (k rows of that source, none repeated, none missing) and grow with
\* updateTime, whatever the other sources and the order of the submission list.
C1_VersionsPerSource ==
    Called /\ HasProduct(call.productName) =>
        /\ TableRowsAreSubs
        /\ \A s \in Sources :
              LET rows == {i \in 1..Len(table) : table[i].source = s}
              IN  /\ {table[i].version : i \in rows} = 1..Cardinality(rows)
                  /\ \A i, j \in rows : table[i].version = table[j].version => i = j
                  /\ \A i, j \in rows :
                        table[i].time < table[j].time => table[i].version < table[j].version

\* A source has two submissions and the list holds the later one first.
C1_Witness ==
    /\ Called
    /\ Len(table) = 2
    /\ Subs[1].source = Subs[2].source
    /\ Subs[1].updateTime > Subs[2].updateTime

\* The source of the first submission of greatest preferredWeight in the list.
MaxWeightSource == Subs[ArgMax([i \in 1..Len(Subs) |-> Subs[i].preferredWeight]) + 1].source

\* C2: with source='preferred' the active source is the source of the submission
\* of greatest preferredWeight (the first one in the list on a tie) and every
\* returned product has that source.
C2_PreferredSourceIsMaxWeight ==
    (call.source = "preferred" /\ Returned) =>
        /\ usources = {MaxWeightSource}
        /\ \A k \in 1..Len(ret.products) : ret.products[k].product.source = MaxWeightSource

\* C3: under version=PREFERRED every retained source group yields exactly one
\* product, a submission of the group's greatest preferredWeight and, among those,
\* of the latest updateTime.
C3_PreferredVersionIsBest ==
    (call.version = PREFERRED /\ Returned) =>
        /\ RetainedGroups
        /\ OnePerGroup
        /\ \A k \in 1..Len(ret.products) :
              LET p == ret.products[k].product
              IN  /\ \E i \in Group(p.source) : Subs[i] = p
                  /\ \A j \in Group(p.source) :
                        /\ Subs[j].preferredWeight <= p.preferredWeight
                        /\ Subs[j].preferredWeight = p.preferredWeight
                              => Subs[j].updateTime <= p.updateTime

\* The product returned is not the latest submission of its source.
C3_Witness ==
    /\ call.version = PREFERRED
    /\ Returned
    /\ \E k \in 1..Len(ret.products) :
          \E j \in Group(ret.products[k].product.source) :
              /\ Subs[j].updateTime > ret.products[k].product.updateTime
              /\ Subs[j].preferredWeight < ret.products[k].product.preferredWeight

\* C4: source='all', version=ALL on N >= 1 submissions returns N products, one
\* per submission, each with its own version.
C4_AllAllReturnsEverySubmission ==
    (call.source = "all" /\ call.version = ALL /\ HasProduct(call.productName)
        /\ Len(Subs) >= 1) =>
        /\ Returned
        /\ Len(ret.products) = Len(Subs)
        /\ \A i \in 1..Len(table) :
              \E k \in 1..Len(ret.products) :
                  /\ ret.products[k].version = table[i].version
                  /\ ret.products[k].product = Subs[table[i].index + 1]

\* C5: source='all', version=FIRST returns one product per distinct source, a
\* submission of the least updateTime of its source.
C5_AllFirstIsEarliestPerSource ==
    (call.source = "all" /\ call.version = FIRST /\ HasProduct(call.productName)
        /\ Len(Subs) >= 1) =>
        /\ Returned
        /\ usources = SubSources
        /\ OnePerGroup
        /\ \A k \in 1..Len(ret.products) :
              LET p == ret.products[k].product
              IN  /\ \E i \in Group(p.source) : Subs[i] = p
                  /\ \A j \in Group(p.source) : p.updateTime <= Subs[j].updateTime

\* Two sources, one product each.
C5_Witness ==
    /\ call.source = "all"
    /\ call.version = FIRST
    /\ Returned
    /\ Len(ret.products) = 2

\* C6: under version=LAST every retained source group yields exactly one product,
\* a submission of the greatest updateTime of the group.
C6_LastIsLatestPerGroup ==
    (call.version = LAST /\ Returned) =>
        /\ RetainedGroups
        /\ OnePerGroup
        /\ \A k \in 1..Len(ret.products) :
              LET p == ret.products[k].product
              IN  /\ \E i \in Group(p.source) : Subs[i] = p
                  /\ \A j \in Group(p.source) : Subs[j].updateTime <= p.updateTime

\* LAST on a single source group with an earlier submission after the latest one.
C6_Witness ==
    /\ call.version = LAST
    /\ call.source # "all"
    /\ Returned
    /\ Len(Subs) = 2
    /\ Subs[1].source = Subs[2].source
    /\ Subs[1].updateTime > Subs[2].updateTime

\* C7: with an explicit source id only products of that source are returned, and
\* the call fails with NotFound when no submission has that source.
C7_ExplicitSource ==
    call.source \in Sources =>
        /\ \A k \in 1..Len(ret.products) : ret.products[k].product.source = call.source
        /\ Group(call.source) = {} => NotFound(ret) /\ ret.products = <<>>

\* An explicit source that none of the submissions has.
C7_Witness ==
    /\ call.source \in Sources
    /\ Len(Subs) >= 1
    /\ Group(call.source) = {}
    /\ ret = NoProductsForSource

\* C8: a product type that is absent, or present with an empty list, fails with
\* NotFound for every source mode and every version policy.
C8_NoSubmissionsIsNotFound ==
    (Called /\ (~HasProduct(call.productName) \/ Len(Subs) = 0)) => NotFound(ret)

\* C9: a version policy that is none of the four fails with InvalidPolicy, and
\* returns nothing, when the product type and the source have a submission.
C9_InvalidPolicy ==
    (/\ Called
     /\ ~ValidVersion(call.version)
     /\ Len(Subs) >= 1
     /\ call.source \in Sources => Group(call.source) # {}) =>
        InvalidPolicy(ret) /\ ret.products = <<>>

DatetimeMsec(d) == d.seconds * 1000 + d.microseconds \div 1000

\* C12: for every integer T, negative ones included, s = T div 1000 and
\* m = T - 1000*s give 1000*s + m = T with 0 <= m <= 999, and the datetime
\* returned stands for T to the millisecond.
C12_TimeDecomposition ==
    LET s == TimeInSec(clock.msec)
        m == Msec(clock.msec)
    IN  /\ 1000 * s + m = clock.msec
        /\ 0 <= m /\ m <= 999
        /\ dtime.set =>
              /\ DatetimeMsec(dtime) = clock.msec
              /\ dtime.microseconds = m * 1000
              /\ dtime.seconds = s

\* A negative time that is no whole number of seconds has been converted.
C12_Witness ==
    /\ dtime.set
    /\ clock.msec < 0
    /\ clock.msec % 1000 # 0

\* What a dict holds, the nested dicts followed.
DictView(d) ==
    [source |-> d.source, properties |-> heap[d.properties], contents |-> heap[d.contents]]

\* C11: a write to the submission data of a Product, at any depth, leaves the
\* event's document as it was, and a write to the event's document leaves the
\* Product as it was.
C11_ProductIsACopy ==
    [][/\ op' \in {"product_field", "product_nested"} => DictView(evt)' = DictView(evt)
       /\ (prod.made /\ op' \in {"event_field", "event_nested"})
             => DictView(prod)' = DictView(prod)]_vars

\* The entries of the contents whose key matches the regexp of the lookup, and
\* those of them whose file name is the shortest.
KeyMatches == {i \in 1..Len(contents) : MatchesAtEnd(creq.regexp, contents[i].key)}
NameOf(i) == FileName(contents[i].url)
Shortest == {i \in KeyMatches : \A j \in KeyMatches : Len(NameOf(i)) <= Len(NameOf(j))}
FirstOf(S) == CHOOSE i \in S : \A j \in S : i <= j
LastOf(S) == CHOOSE i \in S : \A j \in S : i >= j

\* C13: get_content_name returns a file name of least length among the
\* contents whose key matches the pattern at its end, and None when no key
\* matches.
C13_ShortestMatchingName ==
    creq.name = "get_content_name" =>
        IF KeyMatches = {} THEN cret = None
        ELSE \E i \in Shortest : cret = Str(NameOf(i))

NameMatches(entry) == MatchesAtEnd(creq.regexp, FileName(entry.url))

\* The file names of a sequence of entries, in its order.
Names(entries) == [i \in 1..Len(entries) |-> FileName(entries[i].url)]

C15_ShortestToLongest ==
    creq.name = "get_contents_matching" =>
        \A i, j \in 1..Len(cret.list) : i < j => Len(cret.list[i]) <= Len(cret.list[j])

ChosenEntry(i) ==
    IF creq.name = "get_content_name" THEN Str(NameOf(i)) ELSE Str(contents[i].url)

\* C20 as stated: of several matching entries with the shortest file name,
\* get_content_name and get_content_url return the last one scanned.
C20_LastShortestWins ==
    (creq.name \in {"get_content_name", "get_content_url"} /\ Cardinality(Shortest) > 1)
        => cret = ChosenEntry(LastOf(Shortest))

\* C20 as amended: they return the first one scanned, and None when the
\* shortest file name has 1000 characters or more.
C20_FirstShortestWins ==
    (creq.name \in {"get_content_name", "get_content_url"} /\ Cardinality(Shortest) > 1)
        => IF Len(NameOf(FirstOf(Shortest))) < PlaceholderLen
           THEN cret = ChosenEntry(FirstOf(Shortest))
           ELSE cret = None

\* A lookup on two matching entries of the same, shortest, name length but
\* different names.
C20_Witness ==
    /\ creq.name \in {"get_content_name", "get_content_url"}
    /\ Cardinality(Shortest) > 1
    /\ NameOf(FirstOf(Shortest)) # NameOf(LastOf(Shortest))
    /\ cret.kind = "str"

\* C16: Product.fetch requests the url that get_content_url returns for the
\* pattern, and stores the text under the file name of that url.
C16_FetchesShortest ==
    (freq.who = "Product" /\ Len(attempts) >= 1) =>
        /\ Str(furl) = GetContentUrl(contents, freq.arg)
        /\ \A i \in 1..Len(writes) :
              Str(writes[i]) = Str(GzName(GetContentUrl(contents, freq.arg).str))

\* C17: Product.fetch raises when both requests failed.
C17_RaisesAfterTwoFailures ==
    (fpc = "done" /\ freq.who = "Product"
        /\ attempts = <<"RequestException", "RequestException">>)
        => fret \notin {"", "return"}

Failed(i) == attempts[i] = "RequestException"

\* What C18 says of the requests: at most two, the second only after a failed
\* first, none after a success, and no file touched when the call ends without
\* a success.
RequestDiscipline ==
    /\ Len(attempts) <= 2
    /\ \A i \in 1..Len(attempts) : i < Len(attempts) => Failed(i)
    /\ (fpc = "done" /\ \A i \in 1..Len(attempts) : Failed(i))
          => (files = before /\ writes = <<>> /\ fret = "return")
    /\ (fpc = "done" /\ attempts = <<>>) => freq.who = "Product"

\* The call wrote exactly one file, a gzip file, and touched no other.
WroteOneGzip ==
    /\ Len(writes) = 1
    /\ MatchesAtEnd(".gz", writes[1])
    /\ writes[1] \in DOMAIN files
    /\ DOMAIN files = DOMAIN before \cup {writes[1]}
    /\ \A n \in DOMAIN before : n # writes[1] => files[n] = before[n]

Succeeded == fpc = "done" /\ Len(attempts) >= 1 /\ ~Failed(Len(attempts))

Tied(i, j) == table[i].source = table[j].source /\ table[i].time = table[j].time

\* C19 as stated: of two submissions of one source with the same updateTime,
\* the one earlier in the submission list has the lower version, whatever
\* their weights.
C19_StableSort ==
    Called /\ HasProduct(call.productName) =>
        \A i, j \in 1..Len(table) :
            (Tied(i, j) /\ table[i].index < table[j].index)
                => table[i].version < table[j].version

\* C19 as amended: of two such submissions the one of lower preferredWeight
\* has the lower version, and on equal weights the one earlier in the list.
C19_TiesByWeightThenIndex ==
    Called /\ HasProduct(call.productName) =>
        \A i, j \in 1..Len(table) :
            Tied(i, j) =>
                /\ table[i].weight < table[j].weight => table[i].version < table[j].version
                /\ (table[i].weight = table[j].weight /\ table[i].index < table[j].index)
                      => table[i].version < table[j].version

\* Two submissions of one source with the same updateTime, the heavier one
\* first in the list.
C19_Witness ==
    /\ Called
    /\ Len(table) = 2
    /\ Subs[1].source = Subs[2].source
    /\ Subs[1].updateTime = Subs[2].updateTime
    /\ Subs[1].preferredWeight > Subs[2].preferredWeight

C22_FirstIsOneLastIsCount ==
    (call.version \in {FIRST, LAST} /\ Returned) =>
        /\ OnePerGroup
        /\ \A k \in 1..Len(ret.products) :
              ret.products[k].version =
                  IF call.version = FIRST THEN 1
                  ELSE Cardinality(Group(ret.products[k].product.source))

\* LAST has returned the second version of a source whose two submissions have
\* the same updateTime and different weights.
C22_Witness ==
    /\ call.version = LAST
    /\ Returned
    /\ Len(Subs) = 2
    /\ Subs[1].source = Subs[2].source
    /\ Subs[1].updateTime = Subs[2].updateTime
    /\ Subs[1].preferredWeight # Subs[2].preferredWeight
    /\ ret.products[1].version = 2

\* Submission i comes before submission j of the same source: by updateTime,
\* then by preferredWeight, then by position in the list.
Precedes(i, j) ==
    \/ Subs[i].updateTime < Subs[j].updateTime
    \/ /\ Subs[i].updateTime = Subs[j].updateTime
       /\ \/ Subs[i].preferredWeight < Subs[j].preferredWeight
          \/ Subs[i].preferredWeight = Subs[j].preferredWeight /\ i < j

\* The 1-based rank of submission i among the submissions of its source.
Rank(i) == 1 + Cardinality({j \in Group(Subs[i].source) : Precedes(j, i)})

\* C23: the version of a returned Product is the rank of its submission among
\* the submissions of its source, a function of the submission list alone:
\* every row of the version table carries the rank of its submission, and every
\* Product returned, under any source mode and version policy, is made of a
\* row's submission and that row's version.
C23_VersionIsRank ==
    (Called /\ HasProduct(call.productName)) =>
        /\ \A r \in 1..Len(table) : table[r].version = Rank(table[r].index + 1)
        /\ Returned =>
              \A k \in 1..Len(ret.products) :
                  \E r \in 1..Len(table) :
                      /\ table[r].source \in usources
                      /\ ret.products[k] =
                            Product(call.productName, table[r].version,
                                    Subs[table[r].index + 1])

\* source='all' has returned, for a source of two submissions, the one of
\* version 2, which is the first of the list.
C23_Witness ==
    /\ call.source = "all"
    /\ Returned
    /\ Len(Subs) = 2
    /\ Subs[1].source = Subs[2].source
    /\ Len(ret.products) = 1
    /\ ret.products[1].version = 2
    /\ ret.products[1].product = Subs[1]
    /\ Subs[1] # Subs[2]

\* C24: get_content_name and get_content_url return None only when no key
\* matches the pattern; when a key matches they return the name, and the url,
\* of one and the same matching entry, whatever the length of the file names.
C24_NoneOnlyWithoutMatch ==
    creq.name \in {"get_content_name", "get_content_url"} =>
        IF KeyMatches = {} THEN cret = None
        ELSE \E i \in KeyMatches :
                /\ cret = ChosenEntry(i)
                /\ GetContentName(contents, creq.regexp) = Str(NameOf(i))
                /\ GetContentUrl(contents, creq.regexp) = Str(contents[i].url)

====
